---- MODULE Spec2Model ----
(***************************************************************************)
(* The client-side event-tracking pipeline of the eventCollection app:     *)
(* UserTrackingService (queue, timer flush, threshold flush, forced flush, *)
(* re-queue on failure, user id management, anonymous-to-authenticated     *)
(* migration), the parts of SupabaseService it talks to (currentUser,      *)
(* initializeAuth, saveUserEvents) and ApiService.getOrCreateUserId, which *)
(* shares the localStorage key 'anonymous_user_id'.                        *)
(*                                                                         *)
(* One step of the model is one browser task together with the microtasks  *)
(* it triggers: a handler runs without interruption until it awaits a      *)
(* network call (saveUserEvents, getUser).  `await this.ensureUserId()`    *)
(* and `await this.trackEvent(..)` without a threshold flush resume in     *)
(* the same microtask checkpoint and so belong to the same step.           *)
(***************************************************************************)
EXTENDS Integers, Sequences, FiniteSets, Bags, TLC

VARIABLES
    session,      \* auth state held by the Supabase client (Null or a user id)
    sbState,      \* SupabaseService: "none" | "getUser" (initializeAuth awaiting) | "ready"
    currentUser,  \* SupabaseService.currentUser signal
    listeners,    \* onAuthStateChange subscribers, in registration order
    localStorage, \* value of the key 'anonymous_user_id' (Null when absent)
    apiUserId,    \* ApiService.userId (Null while ApiService is not constructed)
    isInitialized,\* UserTrackingService constructed and initializeTracking done
    userId,       \* UserTrackingService.userId signal
    eventQueue,   \* UserTrackingService.eventQueue
    inflight,     \* saveUserEvents calls whose promise is pending, in call order
    user_events,  \* rows inserted into table user_events (a bag)
    nextId,       \* identity of the next UserEvent object created
    nextAnon,     \* source of the Date.now()/Math.random() part of fresh ids
    canFail,      \* the backend may still reject inserts
    failed,       \* history: some saveUserEvents call has failed
    handled,      \* history: anonymous ids whose sign-in handling has completed
    migrations,   \* history: per migration, the count recorded and the events changed
    ratings,      \* backend table ratings (a bag of rows)
    visits,       \* backend table visits (a bag of rows)
    event_views,  \* backend table event_views (a bag of rows)
    lastSent,     \* body of the latest createRating request (NoRequest before any)
    detail,       \* EventDetail component: its signals and where submitRating is
    pages,        \* per page component: where ngOnInit is, loading, error thrown out
    now,          \* Date.now() in milliseconds
    lastScrollTime, \* TrackScrollDirective.lastScrollTime
    scrollSeen,   \* history: window scroll events delivered to the directive
    scrollTimes,  \* history: Date.now() of every trackScroll call, in order
    statsIn,      \* the user_events rows and the userId argument of a stats call
    stats,        \* result of getUserEventStats (NoStats before the call)
    lastResult,   \* how the latest SupabaseService write call ended (NoResult before any)
    user_profiles,\* backend table user_profiles (a bag of rows)
    ratingsPage,  \* Ratings component: its signals, its loads and requests in flight
    analytics     \* Analytics component: the events it was given, its topEvents

\* The outcome of the write calls and the tables only they touch.
callVars == <<lastResult, user_profiles>>

\* The Ratings and Analytics components.
pageVars == <<ratingsPage, analytics>>

\* State outside the tracking pipeline: backend tables, pages, directives.
appVars == <<ratings, visits, event_views, lastSent, detail, pages, now,
             lastScrollTime, scrollSeen, scrollTimes, statsIn, stats,
             callVars, pageVars>>

\* State of the tracking pipeline and of authentication.
trackingVars == <<session, sbState, currentUser, listeners, localStorage,
                  apiUserId, isInitialized, userId, eventQueue, inflight,
                  user_events, nextId, nextAnon, canFail, failed, handled,
                  migrations>>

vars == <<trackingVars, appVars>>

(***************************************************************************)
(* Bounds of the model.                                                    *)
(***************************************************************************)
\* The code's batchSize is 50 (user-tracking.service.ts:54).  The model runs
\* the same code with a small threshold so that queues longer than one
\* batch are reachable; no definition below depends on the value.
batchSize == 2
MaxEvents == 3
MaxInFlight == 2
MaxAnon == 2
MaxSaves == 1
NumUsers == 1
NumEvents == 1
MaxTimers == 1
MaxSeconds == 2
MaxScrolls == 3
MaxRows == 2
MaxLoading == 2
MaxListed == 6

(***************************************************************************)
(* User ids.  An id is modelled by its prefix and the rest of the string.  *)
(***************************************************************************)
Null == [kind |-> "null", n |-> 0]

AuthId(k) == [kind |-> "uuid", n |-> k]

Users == {AuthId(k) : k \in 1..NumUsers}

\* `anon_${Date.now()}_${Math.random().toString(36).substr(2, 9)}`
TrackingAnonId(n) == [kind |-> "anon_", n |-> n]

\* 'anon-' + Math.random().toString(36).substring(2, 15) + ...
ApiAnonId(n) == [kind |-> "anon-", n |-> n]

\* oldUserId && oldUserId.startsWith('anon_')
IsAnon(uid) == uid # Null /\ uid.kind = "anon_"

(***************************************************************************)
(* Sequence helpers.                                                       *)
(***************************************************************************)
Min(a, b) == IF a < b THEN a ELSE b

Take(s, n) == SubSeq(s, 1, Min(n, Len(s)))

Drop(s, n) == SubSeq(s, Min(n, Len(s)) + 1, Len(s))

Range(s) == {s[i] : i \in DOMAIN s}

RemoveAt(s, i) == SubSeq(s, 1, i - 1) \o SubSeq(s, i + 1, Len(s))

BagOfSeq(s) == [e \in Range(s) |-> Cardinality({i \in DOMAIN s : s[i] = e})]

(***************************************************************************)
(* Pure parts of the services.                                             *)
(***************************************************************************)
\* ensureUserId that ignores the stored id and always generates one.
EnsureUserIdAlwaysNew(uid, authUser, stored, n) ==
    IF uid # Null
    THEN [uid |-> uid, stored |-> stored, fresh |-> FALSE]
    ELSE IF authUser # Null
    THEN [uid |-> authUser, stored |-> stored, fresh |-> FALSE]
    ELSE [uid |-> TrackingAnonId(n), stored |-> TrackingAnonId(n), fresh |-> TRUE]

\* UserTrackingService.ensureUserId: the id to use, the value of the
\* localStorage key afterwards, and whether a fresh id was generated.
EnsureUserId(uid, authUser, stored, n) ==
    IF uid # Null
    THEN [uid |-> uid, stored |-> stored, fresh |-> FALSE]
    ELSE IF authUser # Null
    THEN [uid |-> authUser, stored |-> stored, fresh |-> FALSE]
    ELSE IF stored # Null
    THEN [uid |-> stored, stored |-> stored, fresh |-> FALSE]
    ELSE [uid |-> TrackingAnonId(n), stored |-> TrackingAnonId(n), fresh |-> TRUE]

\* ApiService.getOrCreateUserId
GetOrCreateUserId(stored, n) ==
    IF stored = Null
    THEN [uid |-> ApiAnonId(n), stored |-> ApiAnonId(n), fresh |-> TRUE]
    ELSE [uid |-> stored, stored |-> stored, fresh |-> FALSE]

\* flushEvents that sends only full batches.
FlushEventsOnlyFull(q, force) ==
    IF Len(q) = 0 \/ (~force /\ Len(q) < batchSize)
    THEN [queue |-> q, batch |-> <<>>]
    ELSE IF force
    THEN [queue |-> q, batch |-> q]
    ELSE [queue |-> Drop(q, batchSize), batch |-> Take(q, batchSize)]

\* flushEvents that takes the newest events: splice(-batchSize).
FlushEventsNewest(q, force) ==
    IF Len(q) = 0
    THEN [queue |-> q, batch |-> <<>>]
    ELSE IF force
    THEN [queue |-> q, batch |-> q]
    ELSE [queue |-> Take(q, Len(q) - Min(batchSize, Len(q))),
          batch |-> Drop(q, Len(q) - Min(batchSize, Len(q)))]

\* flushEvents whose forced flush is limited to batchSize events too.
FlushEventsCapped(q, force) ==
    IF Len(q) = 0
    THEN [queue |-> q, batch |-> <<>>]
    ELSE IF force
    THEN [queue |-> q, batch |-> Take(q, batchSize)]
    ELSE [queue |-> Drop(q, batchSize), batch |-> Take(q, batchSize)]

\* UserTrackingService.flushEvents up to its await: the queue that is left
\* and the batch handed to saveUserEvents (empty: no call is made).
FlushEvents(q, force) ==
    IF Len(q) = 0
    THEN [queue |-> q, batch |-> <<>>]
    ELSE IF force
    THEN [queue |-> q, batch |-> q]
    ELSE [queue |-> Drop(q, batchSize), batch |-> Take(q, batchSize)]

\* A catch block that only logs the error.
RequeueDropped(q, batch, force) == q

\* The catch block of flushEvents: this.eventQueue.unshift(...eventsToFlush)
Requeue(q, batch, force) == IF ~force THEN batch \o q ELSE q

\* The size test written with > instead of >=.
QueueIsFullStrict(q) == Len(q) > batchSize

\* The size test of trackEvent: this.eventQueue.length >= this.batchSize
QueueIsFull(q) == Len(q) >= batchSize

\* A pending saveUserEvents(events) call.  origin names the caller that
\* awaits it (and so what runs when it settles); old and new are the locals
\* oldUserId and newUserId of a sign-in handler that is suspended on it.
SaveCall(batch, force, origin, old, new) ==
    [batch |-> batch, force |-> force, origin |-> origin, old |-> old, new |-> new]

\* SupabaseService.saveUserEvents up to its await: no request for no events.
StartSave(calls, batch, force, origin, old, new) ==
    IF Len(batch) = 0 THEN calls
    ELSE Append(calls, SaveCall(batch, force, origin, old, new))

\* The part of the state that the tracking service's handlers change.
St == [userId |-> userId, localStorage |-> localStorage, nextAnon |-> nextAnon,
       eventQueue |-> eventQueue, nextId |-> nextId, inflight |-> inflight,
       handled |-> handled, migrations |-> migrations]

Commit(st) ==
    /\ userId' = st.userId
    /\ localStorage' = st.localStorage
    /\ nextAnon' = st.nextAnon
    /\ eventQueue' = st.eventQueue
    /\ nextId' = st.nextId
    /\ inflight' = st.inflight
    /\ handled' = st.handled
    /\ migrations' = st.migrations

\* A handler that ran from st to t is suspended on a save it started.
Awaiting(st, t) == Len(t.inflight) > Len(st.inflight)

\* UserTrackingService.trackEvent up to the await of its threshold flush.
\* authUser is SupabaseService.currentUser when trackEvent is called; the
\* field auth of the event is history (not sent), used to state attribution.
TrackEvent(st, authUser, etype, meta, origin, old, new) ==
    LET e == EnsureUserId(st.userId, authUser, st.localStorage, st.nextAnon)
        fullEvent == [id |-> st.nextId, user_id |-> e.uid, event_type |-> etype,
                      meta |-> meta, auth |-> authUser]
        q1 == Append(st.eventQueue, fullEvent)
        f == IF QueueIsFull(q1) THEN FlushEvents(q1, FALSE)
             ELSE [queue |-> q1, batch |-> <<>>]
    IN  [st EXCEPT !.userId = e.uid,
                   !.localStorage = e.stored,
                   !.nextAnon = IF e.fresh THEN @ + 1 ELSE @,
                   !.eventQueue = f.queue,
                   !.nextId = @ + 1,
                   !.inflight = StartSave(@, f.batch, FALSE, origin, old, new)]

\* The forEach of migrateAnonymousEvents.
MigrateQueue(q, old, new) ==
    [i \in DOMAIN q |-> IF q[i].user_id = old THEN [q[i] EXCEPT !.user_id = new] ELSE q[i]]

\* UserTrackingService.migrateAnonymousEvents up to the await inside its
\* trackEvent; metadata.events_migrated is this.eventQueue.length.
\* History (migrations): what the event records next to how many queued
\* events the forEach gave another user_id.
MigrateAnonymousEvents(st, authUser, old, new, origin) ==
    LET q1 == MigrateQueue(st.eventQueue, old, new)
        changed == Cardinality({i \in DOMAIN q1 : q1[i] # st.eventQueue[i]})
    IN  TrackEvent([st EXCEPT !.eventQueue = q1,
                              !.migrations = @ \cup {[id |-> st.nextId,
                                                      recorded |-> Len(q1),
                                                      changed |-> changed]}],
                   authUser, "events_migrated", Len(q1), origin, old, new)

\* History: the handling of the sign-in of anonymous id old has completed.
Handled(st, old) == [st EXCEPT !.handled = @ \cup {old}]

\* The SIGNED_IN listener after `await this.trackEvent(user_authenticated)`.
AfterAuthenticated(st, authUser, old, new) ==
    IF IsAnon(old)
    THEN LET m == MigrateAnonymousEvents(st, authUser, old, new, "signedIn2")
         IN  IF Awaiting(st, m) THEN m ELSE Handled(m, old)
    ELSE st

\* The SIGNED_IN branch of the listener of setupAuthListener.  authAtCall is
\* currentUser when the listener is called, authAfter once every listener
\* has been called.
OnSignedIn(st, authAtCall, authAfter, new) ==
    LET old == st.userId
        t == TrackEvent([st EXCEPT !.userId = new], authAtCall,
                        "user_authenticated", 0, "signedIn1", old, new)
    IN  IF Awaiting(st, t) THEN t ELSE AfterAuthenticated(t, authAfter, old, new)

\* A SIGNED_OUT branch that does not store the id it generates.
OnSignedOutNotStored(st, authAtCall) ==
    LET newAnonUid == TrackingAnonId(st.nextAnon)
    IN  TrackEvent([st EXCEPT !.userId = newAnonUid, !.nextAnon = @ + 1],
                   authAtCall, "user_signed_out", 0, "signedOut", Null, Null)

\* The SIGNED_OUT branch of the listener.
OnSignedOut(st, authAtCall) ==
    LET newAnonUid == TrackingAnonId(st.nextAnon)
    IN  TrackEvent([st EXCEPT !.localStorage = newAnonUid,
                              !.userId = newAnonUid,
                              !.nextAnon = @ + 1],
                   authAtCall, "user_signed_out", 0, "signedOut", Null, Null)

\* UserTrackingService.updateUserId after migrateAnonymousEvents returned.
AfterUpdateMigrate(st, old, new) == Handled([st EXCEPT !.userId = new], old)

\* UserTrackingService.updateUserId
UpdateUserIdOp(st, authUser) ==
    IF authUser # Null
    THEN LET old == st.userId
             new == authUser
         IN  IF old # new
             THEN IF IsAnon(old)
                  THEN LET m == MigrateAnonymousEvents(st, authUser, old, new, "update")
                       IN  IF Awaiting(st, m) THEN m ELSE AfterUpdateMigrate(m, old, new)
                  ELSE [st EXCEPT !.userId = new]
             ELSE st
    ELSE LET e == EnsureUserId(st.userId, authUser, st.localStorage, st.nextAnon)
         IN  [st EXCEPT !.userId = e.uid, !.localStorage = e.stored,
                        !.nextAnon = IF e.fresh THEN @ + 1 ELSE @]

\* What runs when the save that a handler awaits has settled.
Continue(st, authUser, call) ==
    CASE call.origin = "signedIn1" -> AfterAuthenticated(st, authUser, call.old, call.new)
      [] call.origin = "signedIn2" -> Handled(st, call.old)
      [] call.origin = "update" -> AfterUpdateMigrate(st, call.old, call.new)
      [] OTHER -> st

(***************************************************************************)
(* Caps that keep the model finite.                                        *)
(***************************************************************************)
\* Events that suspended SIGNED_IN listeners will still track.
Reserved ==
    Cardinality({i \in DOMAIN inflight :
                    inflight[i].origin = "signedIn1" /\ IsAnon(inflight[i].old)})

CanTrack(k) == nextId - 1 + k + Reserved <= MaxEvents

CanCall == Len(inflight) < MaxInFlight

\* Successful saves of the event with identity id.
TimesSaved(id) ==
    BagCardinality([e \in {x \in DOMAIN user_events : x.id = id} |-> user_events[e]])

\* Pending saves that carry the event with identity id.
TimesInFlight(id) ==
    Cardinality({i \in DOMAIN inflight : \E j \in DOMAIN inflight[i].batch :
                                            inflight[i].batch[j].id = id})

CanForce ==
    \A j \in DOMAIN eventQueue :
        TimesSaved(eventQueue[j].id) + TimesInFlight(eventQueue[j].id) < MaxSaves

(***************************************************************************)
(* Ratings, visits and event views.  Scores are written in tenths (30 is   *)
(* the score 3, 25 the score 2.5) so that the numbers a caller can pass    *)
(* that are not whole stay distinct from the whole ones.                   *)
(***************************************************************************)
Events == 1..NumEvents

\* The scores the ratings table accepts: the integers 1..5.
ValidScores == {10, 20, 30, 40, 50}

\* Arguments of createRating calls: score, review, wasPresent.
RatingInputs ==
    { [score |-> 30, review |-> "great", wasPresent |-> TRUE],
      [score |-> 50, review |-> "", wasPresent |-> FALSE],
      [score |-> 25, review |-> " <b>great</b> ", wasPresent |-> FALSE],
      [score |-> 70, review |-> "", wasPresent |-> TRUE],
      [score |-> 0, review |-> "", wasPresent |-> TRUE] }

Max(a, b) == IF a >= b THEN a ELSE b

\* Math.round: the nearest integer, halves rounded up.
MathRound(score) == ((score + 5) \div 10) * 10

\* ApiService.validateScore
ValidateScore(score) == Max(10, Min(50, MathRound(score)))

\* ApiService.sanitizeString on the reviews above: trim, then tags removed.
SanitizeString(str) == IF str = " <b>great</b> " THEN "great" ELSE str

\* The JSON null of a review.
NoReview == "null"

\* `review || null`
OrNull(review) == IF review = "" THEN NoReview ELSE review

NoRequest == [service |-> "none"]

\* The body of a createRating request.  hit is history: the table held a
\* row of that event and user when the request arrived.
RatingBody(service, eventId, uid, score, review, wasPresent, hit) ==
    [service |-> service, event_id |-> eventId, user_id |-> uid, score |-> score,
     review |-> review, was_present |-> wasPresent, hit |-> hit]

\* The rows of a table for one event and one user.
RowsOf(table, eventId, uid) ==
    {r \in BagToSet(table) : r.event_id = eventId /\ r.user_id = uid}

\* How many rows a table holds for one event and one user.
CountOf(table, eventId, uid) ==
    LET rows == RowsOf(table, eventId, uid)
    IN  BagCardinality([r \in rows |-> table[r]])

\* upsert(row, { onConflict: 'event_id,user_id' }) as the database performs
\* it: the row of that event and user is replaced, or the row is added.
Upsert(table, row) ==
    LET others == {r \in BagToSet(table) :
                      ~(r.event_id = row.event_id /\ r.user_id = row.user_id)}
    IN  [r \in others |-> table[r]] (+) SetToBag({row})

\* The check constraint of ratings.score.
BackendAccepts(row) == row.score \in ValidScores

RatingRow(eventId, uid, score, review, wasPresent) ==
    [event_id |-> eventId, user_id |-> uid, score |-> score, review |-> review,
     was_present |-> wasPresent]

\* A createRating that inserts.
CreateRatingInsert(table, eventId, uid, in) ==
    table (+) SetToBag({RatingRow(eventId, uid, in.score, OrNull(in.review),
                                  in.wasPresent)})

\* The write SupabaseService.createRating asks for.
CreateRatingWrite(table, eventId, uid, in) ==
    Upsert(table, RatingRow(eventId, uid, in.score, OrNull(in.review), in.wasPresent))

\* The write checkIn and trackEventView ask for.
PairWrite(table, eventId, uid) == Upsert(table, [event_id |-> eventId, user_id |-> uid])

\* The Error that checkIn, createRating and updateUserProfile throw.
AuthError == "User must be authenticated"

NoResult == [op |-> "none", result |-> "none", sent |-> FALSE]

\* A write call that goes on whoever calls.
NoUserNever(user) == FALSE

\* `if (!user)` of a write call
NoUser(user) == user = Null

\* How a write call ends.  sent is history: the call got as far as its
\* request.  Without a user trackEventView returns, the others throw.
WriteResult(op, user, ok) ==
    IF NoUser(user)
    THEN [op |-> op,
          result |-> IF op = "trackEventView" THEN "resolved" ELSE AuthError,
          sent |-> FALSE]
    ELSE [op |-> op, result |-> IF ok THEN "resolved" ELSE "error", sent |-> TRUE]

\* The row of user_profiles a user has from signing up.
ProfileRow(uid, name) == [id |-> uid, name |-> name]

ProfileNames == {"Ann", "Bea"}

\* `.update(updates).eq('id', id)` as the database performs it: the rows
\* of that id take the new values.
UpdateProfile(table, id, name) ==
    LET others == {r \in BagToSet(table) : r.id # id}
        hit == {r \in BagToSet(table) : r.id = id}
    IN  IF hit = {} THEN table
        ELSE [r \in others |-> table[r]] (+) SetToBag({ProfileRow(id, name)})

\* SupabaseService.createRating; ok: the request reaches the database and
\* is answered without error.  With nobody signed in it throws before any
\* request.
SbCreateRating(eventId, in, ok) ==
    /\ LET row == RatingRow(eventId, currentUser, in.score, OrNull(in.review),
                            in.wasPresent)
           accepted == ok /\ BackendAccepts(row)
       IN  /\ lastResult' = WriteResult("createRating", currentUser, accepted)
           /\ IF NoUser(currentUser)
              THEN UNCHANGED <<lastSent, ratings>>
              ELSE /\ lastSent' = RatingBody("supabase", eventId, currentUser,
                                             in.score, OrNull(in.review),
                                             in.wasPresent,
                                             CountOf(ratings, eventId, currentUser) > 0)
                   /\ ratings' = IF accepted
                                 THEN CreateRatingWrite(ratings, eventId,
                                                        currentUser, in)
                                 ELSE ratings
    /\ UNCHANGED <<visits, event_views, detail, pages, now, lastScrollTime,
                   scrollSeen, scrollTimes, statsIn, stats, user_profiles,
                   pageVars>>
    /\ UNCHANGED trackingVars

\* ApiService.createRating: the POST /ratings it sends.
ApiCreateRating(eventId, in) ==
    /\ apiUserId # Null
    /\ lastSent' = RatingBody("api", eventId, apiUserId, ValidateScore(in.score),
                              OrNull(SanitizeString(in.review)), in.wasPresent,
                              FALSE)
    /\ UNCHANGED <<ratings, visits, event_views, detail, pages, now,
                   lastScrollTime, scrollSeen, scrollTimes, statsIn, stats,
                   callVars, pageVars>>
    /\ UNCHANGED trackingVars

\* The write of a checkIn or trackEventView call that is answered or not.
CallWrite(table, eventId, user, ok) ==
    IF ~NoUser(user) /\ ok THEN PairWrite(table, eventId, user) ELSE table

\* SupabaseService.checkIn
SbCheckIn(eventId, ok) ==
    /\ lastResult' = WriteResult("checkIn", currentUser, ok)
    /\ visits' = CallWrite(visits, eventId, currentUser, ok)
    /\ UNCHANGED <<ratings, event_views, lastSent, detail, pages, now,
                   lastScrollTime, scrollSeen, scrollTimes, statsIn, stats,
                   user_profiles, pageVars>>
    /\ UNCHANGED trackingVars

\* SupabaseService.trackEventView
SbTrackEventView(eventId, ok) ==
    /\ lastResult' = WriteResult("trackEventView", currentUser, ok)
    /\ event_views' = CallWrite(event_views, eventId, currentUser, ok)
    /\ UNCHANGED <<ratings, visits, lastSent, detail, pages, now,
                   lastScrollTime, scrollSeen, scrollTimes, statsIn, stats,
                   user_profiles, pageVars>>
    /\ UNCHANGED trackingVars

\* SupabaseService.updateUserProfile({ name })
SbUpdateUserProfile(name, ok) ==
    /\ lastResult' = WriteResult("updateUserProfile", currentUser, ok)
    /\ user_profiles' = IF ~NoUser(currentUser) /\ ok
                        THEN UpdateProfile(user_profiles, currentUser, name)
                        ELSE user_profiles
    /\ UNCHANGED <<ratings, visits, event_views, lastSent, detail, pages, now,
                   lastScrollTime, scrollSeen, scrollTimes, statsIn, stats,
                   pageVars>>
    /\ UNCHANGED trackingVars

(***************************************************************************)
(* The EventDetail page (Supabase mode: useLocalApi is false).             *)
(***************************************************************************)
\* paramMap.get('id') of a route without an id parameter.
NoRouteId == 0

NoEvent == [id |-> NoRouteId]

\* SupabaseService.getEventById with the statistics the database computes
\* from the ratings table: review_count, and avg_rating kept as the sum and
\* the number of the scores.  rated is history: who was counted, with what.
GetEventById(eventId, table) ==
    LET rows == {r \in BagToSet(table) : r.event_id = eventId}
        SumOf[S \in SUBSET rows] ==
            IF S = {} THEN 0
            ELSE LET r == CHOOSE x \in S : TRUE
                 IN  table[r] * r.score + SumOf[S \ {r}]
        n == BagCardinality([r \in rows |-> table[r]])
    IN  [id |-> eventId, review_count |-> n,
         avg_rating |-> [sum |-> SumOf[rows], of |-> n],
         rated |-> {[user_id |-> r.user_id, score |-> r.score] : r \in rows}]

\* A submitRating that keeps the event it had.
ReloadedEventKept(held, updatedEvent) == held

\* `if (updatedEvent) this.event.set(updatedEvent)`
ReloadedEvent(held, updatedEvent) ==
    IF updatedEvent # NoEvent THEN updatedEvent ELSE held

\* A canSubmit that does not look at submitting.
CanSubmitWhileSubmitting(d) == d.userRating > 0

\* EventDetail.canSubmit
CanSubmit(d) == d.userRating > 0 /\ ~d.submitting

\* The stars setRating is called with; 0 is no star.
Stars == {0, 1, 3, 5}

\* The component once ngOnInit has loaded event eventId.
DetailLoaded(eventId, table) ==
    [event |-> GetEventById(eventId, table), userRating |-> 0, reviewText |-> "",
     wasPresent |-> TRUE, submitting |-> FALSE, submitted |-> FALSE,
     pc |-> "idle", call |-> NoRequest, outcome |-> "none", timers |-> 0,
     pending |-> 0]

\* EventDetail.setRating, called for the star the user clicks
SetRating(n) ==
    /\ detail.event # NoEvent
    /\ detail' = [detail EXCEPT !.userRating = n * 10]
    /\ UNCHANGED <<ratings, visits, event_views, lastSent, pages, now,
                   lastScrollTime, scrollSeen, scrollTimes, statsIn, stats,
                   callVars, pageVars>>
    /\ UNCHANGED trackingVars

\* EventDetail.submitRating up to `await this.supabase.createRating(...)`;
\* it returns at once when canSubmit is false.  With nobody signed in
\* createRating throws at once: catch, then finally.  pending is history:
\* the submitRating calls that are between their first line and their
\* finally block; pc, call and outcome are those of the latest one.
SubmitRating ==
    /\ detail.event # NoEvent
    /\ detail.timers < MaxTimers
    /\ IF ~CanSubmit(detail)
       THEN UNCHANGED <<detail, lastSent>>
       ELSE IF NoUser(currentUser)
       THEN /\ detail' = [detail EXCEPT !.submitting = FALSE, !.outcome = "error"]
            /\ UNCHANGED lastSent
       ELSE /\ lastSent' = RatingBody("supabase", detail.event.id, currentUser,
                                      detail.userRating, OrNull(detail.reviewText),
                                      detail.wasPresent,
                                      CountOf(ratings, detail.event.id, currentUser) > 0)
            /\ detail' = [detail EXCEPT !.submitting = TRUE,
                                        !.pc = "createRating",
                                        !.call = lastSent',
                                        !.outcome = "pending",
                                        !.pending = @ + 1]
    /\ UNCHANGED <<ratings, visits, event_views, pages, now, lastScrollTime,
                   scrollSeen, scrollTimes, statsIn, stats, callVars, pageVars>>
    /\ UNCHANGED trackingVars

\* The createRating request is answered; submitRating goes on to
\* `this.submitted.set(true)` and the reload, or to its catch and finally.
CreateRatingSettle(ok) ==
    /\ detail.pc = "createRating"
    /\ LET c == detail.call
           in == [score |-> c.score, review |-> detail.reviewText,
                  wasPresent |-> c.was_present]
           row == RatingRow(c.event_id, c.user_id, c.score, c.review, c.was_present)
       IN  IF ok /\ BackendAccepts(row)
           THEN /\ ratings' = CreateRatingWrite(ratings, c.event_id, c.user_id, in)
                /\ detail' = [detail EXCEPT !.submitted = TRUE, !.pc = "getEventById"]
           ELSE /\ ratings' = ratings
                /\ detail' = [detail EXCEPT !.submitting = FALSE, !.pc = "idle",
                                            !.outcome = "error",
                                            !.pending = @ - 1]
    /\ UNCHANGED <<visits, event_views, lastSent, pages, now, lastScrollTime,
                   scrollSeen, scrollTimes, statsIn, stats, callVars, pageVars>>
    /\ UNCHANGED trackingVars

\* The getEventById of the reload is answered: with the event ("ok"), with
\* no event ("null"), or with an error.
ReloadSettle(res) ==
    /\ detail.pc = "getEventById"
    /\ LET updatedEvent == IF res = "ok"
                           THEN GetEventById(detail.call.event_id, ratings)
                           ELSE NoEvent
       IN  IF res = "error"
           THEN detail' = [detail EXCEPT !.submitting = FALSE, !.pc = "idle",
                                         !.outcome = "error", !.pending = @ - 1]
           ELSE detail' = [detail EXCEPT
                              !.event = ReloadedEvent(@, updatedEvent),
                              !.timers = @ + 1,
                              !.submitting = FALSE,
                              !.pc = "idle",
                              !.pending = @ - 1,
                              !.outcome = IF res = "ok" THEN "ok" ELSE "gone"]
    /\ UNCHANGED <<ratings, visits, event_views, lastSent, pages, now,
                   lastScrollTime, scrollSeen, scrollTimes, statsIn, stats,
                   callVars, pageVars>>
    /\ UNCHANGED trackingVars

\* The setTimeout callback of submitRating: this.submitted.set(false)
SubmittedTimeout ==
    /\ detail.timers > 0
    /\ detail' = [detail EXCEPT !.submitted = FALSE, !.timers = @ - 1]
    /\ UNCHANGED <<ratings, visits, event_views, lastSent, pages, now,
                   lastScrollTime, scrollSeen, scrollTimes, statsIn, stats,
                   callVars, pageVars>>
    /\ UNCHANGED trackingVars

(***************************************************************************)
(* Page loads: ngOnInit of every page component that has a loading flag.   *)
(***************************************************************************)
Pages == {"Home", "Explore", "Analytics", "Profile", "Ratings", "Admin", "EventDetail"}

\* The calls a page's ngOnInit awaits inside its try block, in order.
\* caught: the callee has a try/catch of its own and never rejects.
PageSteps(p) ==
    CASE p = "Home" -> <<[call |-> "getCities", caught |-> FALSE],
                         [call |-> "getCategories", caught |-> FALSE],
                         [call |-> "loadEvents", caught |-> TRUE]>>
      [] p = "Explore" -> <<[call |-> "getCities", caught |-> FALSE],
                            [call |-> "getCategories", caught |-> FALSE],
                            [call |-> "loadEvents", caught |-> TRUE]>>
      [] p = "Analytics" -> <<[call |-> "getEvents", caught |-> FALSE],
                              [call |-> "getCategories", caught |-> FALSE],
                              [call |-> "getCities", caught |-> FALSE]>>
      [] p = "Profile" -> <<[call |-> "getUserProfile", caught |-> FALSE],
                            [call |-> "getUserVisits", caught |-> FALSE],
                            [call |-> "getUserRatings", caught |-> FALSE],
                            [call |-> "getEvents", caught |-> FALSE]>>
      [] p = "Ratings" -> <<[call |-> "getUserRatings", caught |-> FALSE],
                            [call |-> "getUserPendingRatings", caught |-> FALSE],
                            [call |-> "getUserVisits", caught |-> FALSE]>>
      [] p = "Admin" -> <<[call |-> "Promise.all", caught |-> FALSE],
                          [call |-> "loadUsersWithStats", caught |-> FALSE]>>
      [] p = "EventDetail" -> <<[call |-> "getEventById", caught |-> FALSE],
                                [call |-> "trackEventView", caught |-> FALSE],
                                [call |-> "hasUserCheckedIn", caught |-> FALSE],
                                [call |-> "getEventRatings", caught |-> FALSE]>>

\* A page component as constructed: loading = signal(true).  thrown is
\* history: an error left ngOnInit; id is the route's id parameter.
PageNew ==
    [at |-> "new", step |-> 0, loading |-> TRUE, thrown |-> FALSE, id |-> NoRouteId]

\* The EventDetail component as constructed.
DetailNew ==
    [event |-> NoEvent, userRating |-> 0, reviewText |-> "", wasPresent |-> TRUE,
     submitting |-> FALSE, submitted |-> FALSE, pc |-> "idle", call |-> NoRequest,
     outcome |-> "none", timers |-> 0, pending |-> 0]

\* A return in front of the try block: ngOnInit is over, nothing else ran.
ReturnBeforeTry(pg) == [pg EXCEPT !.at = "done", !.step = 0]

\* A finally block that is skipped when the try block threw.
FinallyOnSuccess(pg, threw) ==
    [pg EXCEPT !.at = "done", !.step = 0, !.loading = IF threw THEN @ ELSE FALSE]

\* catch (error) { console.error(...) } finally { this.loading.set(false) }:
\* how ngOnInit ends once its try block has returned or thrown.
Finally(pg, threw) == [pg EXCEPT !.at = "done", !.step = 0, !.loading = FALSE]

\* ngOnInit up to its first awaited network call.
StartLoad(pg, p, routeId, user) ==
    IF p = "EventDetail" /\ routeId = NoRouteId
    THEN ReturnBeforeTry(pg)
    ELSE IF p = "Profile" /\ user = Null
    THEN Finally(pg, FALSE)
    ELSE [pg EXCEPT !.at = "await", !.step = 1, !.id = routeId]

\* ngOnInit from the answer to its awaited call number pg.step up to the
\* next one.  With nobody signed in, trackEventView and hasUserCheckedIn
\* return without a request and loadEventData asks for no ratings.
AfterAnswer(pg, p, outcome, user) ==
    LET s == PageSteps(p)[pg.step]
    IN  IF outcome = "error" /\ ~s.caught
        THEN Finally(pg, TRUE)
        ELSE IF p = "EventDetail" /\ pg.step = 1 /\ (outcome = "null" \/ user = Null)
        THEN Finally(pg, FALSE)
        ELSE IF pg.step = Len(PageSteps(p))
        THEN Finally(pg, FALSE)
        ELSE [pg EXCEPT !.step = @ + 1]

\* The answers a call can get.
Outcomes(p, step) ==
    IF p = "EventDetail" /\ step = 1 THEN {"ok", "null", "error"} ELSE {"ok", "error"}

\* loadEventData's own effects: event.set, the event view, the user's
\* existing rating.
DetailAfterAnswer(d, pg, outcome, user, table) ==
    IF outcome # "ok" THEN d
    ELSE IF pg.step = 1
    THEN [d EXCEPT !.event = GetEventById(pg.id, table)]
    ELSE IF pg.step = 4 /\ RowsOf(table, pg.id, user) # {}
    THEN LET userRating == CHOOSE r \in RowsOf(table, pg.id, user) : TRUE
         IN  [d EXCEPT !.userRating = userRating.score,
                       !.wasPresent = userRating.was_present,
                       !.reviewText = IF userRating.review = NoReview THEN ""
                                      ELSE userRating.review]
    ELSE d

\* The router creates page p and Angular calls its ngOnInit.  Home tracks
\* its page view first.
NgOnInit(p, routeId) ==
    /\ pages[p].at = "new"
    /\ Cardinality({q \in Pages : pages[q].at = "await"}) < MaxLoading
    /\ (p = "EventDetail") \/ (routeId = NoRouteId)
    /\ pages' = [pages EXCEPT ![p] = StartLoad(@, p, routeId, currentUser)]
    /\ IF p = "Home"
       THEN /\ CanTrack(1)
            /\ CanCall
            /\ Commit(TrackEvent(St, currentUser, "page_view", 0, "track", Null, Null))
       ELSE UNCHANGED <<userId, localStorage, nextAnon, eventQueue, nextId,
                        inflight, handled, migrations>>
    /\ UNCHANGED <<session, sbState, currentUser, listeners, apiUserId,
                   isInitialized, user_events, canFail, failed>>
    /\ UNCHANGED <<ratings, visits, event_views, lastSent, detail, now,
                   lastScrollTime, scrollSeen, scrollTimes, statsIn, stats,
                   callVars, pageVars>>

\* The call page p awaits is answered.
PageAnswer(p, outcome) ==
    /\ pages[p].at = "await"
    /\ outcome \in Outcomes(p, pages[p].step)
    /\ pages' = [pages EXCEPT ![p] = AfterAnswer(@, p, outcome, currentUser)]
    /\ IF p = "EventDetail"
       THEN /\ detail' = DetailAfterAnswer(detail, pages[p], outcome, currentUser,
                                           ratings)
            /\ event_views' = IF pages[p].step = 2
                              THEN CallWrite(event_views, pages[p].id, currentUser,
                                             outcome = "ok")
                              ELSE event_views
       ELSE UNCHANGED <<detail, event_views>>
    /\ UNCHANGED <<ratings, visits, lastSent, now, lastScrollTime, scrollSeen,
                   scrollTimes, statsIn, stats, callVars, pageVars>>
    /\ UNCHANGED trackingVars

(***************************************************************************)
(* TrackScrollDirective.  The clock is Date.now(); the directive only uses *)
(* differences, and any instant of a running browser is more than          *)
(* throttleDelay after the epoch.                                          *)
(***************************************************************************)
throttleDelay == 1000

\* The times that pass between two things happening, in milliseconds.
TickSteps == {throttleDelay \div 2 - 1, throttleDelay \div 2}

\* A throttle of half the delay.
ScrollDueHalf(t, last) == t - last >= throttleDelay \div 2

\* `now - this.lastScrollTime >= this.throttleDelay`
ScrollDue(t, last) == t - last >= throttleDelay

\* Time passes.
Tick(d) ==
    /\ now + d <= throttleDelay + MaxSeconds * throttleDelay
    /\ now' = now + d
    /\ UNCHANGED <<ratings, visits, event_views, lastSent, detail, pages,
                   lastScrollTime, scrollSeen, scrollTimes, statsIn, stats,
                   callVars, pageVars>>
    /\ UNCHANGED trackingVars

\* The window scroll listener of the directive; trackScroll tracks a
\* 'scroll' event.
OnScroll ==
    /\ isInitialized
    /\ scrollSeen < MaxScrolls
    /\ scrollSeen' = scrollSeen + 1
    /\ IF ScrollDue(now, lastScrollTime)
       THEN /\ CanTrack(1)
            /\ CanCall
            /\ lastScrollTime' = now
            /\ scrollTimes' = Append(scrollTimes, now)
            /\ Commit(TrackEvent(St, currentUser, "scroll", 0, "track", Null, Null))
       ELSE UNCHANGED <<lastScrollTime, scrollTimes, userId, localStorage,
                        nextAnon, eventQueue, nextId, inflight, handled,
                        migrations>>
    /\ UNCHANGED <<session, sbState, currentUser, listeners, apiUserId,
                   isInitialized, user_events, canFail, failed>>
    /\ UNCHANGED <<ratings, visits, event_views, lastSent, detail, pages, now,
                   statsIn, stats, callVars, pageVars>>

(***************************************************************************)
(* SupabaseService.getUserEventStats over the rows of user_events.         *)
(* Timestamps are numbered in time order: the strings the database returns *)
(* are of one format, whose alphabetical order is the order in time.       *)
(***************************************************************************)
\* The category the tracking service gives an event of a type.
CategoryOf(type) == IF type = "page_view" THEN "navigation" ELSE "interaction"

\* A row without a timestamp.
NoTimestamp == 0

\* Rows of user_events; session_id "" is a missing session id.
StatRows ==
    { [user_id |-> u, event_type |-> t, event_category |-> CategoryOf(t),
       session_id |-> s, timestamp |-> ts] :
         u \in {AuthId(1), TrackingAnonId(0)}, t \in {"click", "page_view"},
         s \in {"", "s1", "s2"}, ts \in {NoTimestamp, 1, 2} }

RECURSIVE SeqsUpTo(_, _)
\* The sequences over S of length at most n.
SeqsUpTo(S, n) ==
    IF n = 0 THEN {<<>>}
    ELSE LET shorter == SeqsUpTo(S, n - 1)
         IN  shorter \cup {Append(q, x) : q \in shorter, x \in S}

\* a is not after b in `order('timestamp', { ascending: false })`: the
\* database puts rows without a timestamp first.
NotAfter(a, b) ==
    \/ a.timestamp = NoTimestamp
    \/ b.timestamp # NoTimestamp /\ a.timestamp >= b.timestamp

RECURSIVE OrderDesc(_)
\* The rows in descending order of timestamp.
OrderDesc(rows) ==
    IF rows = <<>> THEN <<>>
    ELSE LET i == CHOOSE k \in DOMAIN rows :
                      \A j \in DOMAIN rows : NotAfter(rows[k], rows[j])
         IN  <<rows[i]>> \o OrderDesc(RemoveAt(rows, i))

\* SupabaseService.getUserEvents(userId) with no filters
GetUserEvents(table, userIdArg, current) ==
    LET user == IF userIdArg # Null THEN userIdArg ELSE current
    IN  IF user = Null THEN <<>>
        ELSE OrderDesc(SelectSeq(table, LAMBDA r : r.user_id = user))

\* `counts[key] = (counts[key] || 0) + 1`
CountKey(counts, key) ==
    IF key \in DOMAIN counts THEN [counts EXCEPT ![key] = @ + 1]
    ELSE [k \in DOMAIN counts \cup {key} |-> IF k = key THEN 1 ELSE counts[k]]

\* A session set that takes every session_id.
AddSessionAlways(sessions, sid) == sessions \cup {sid}

\* `if (event.session_id) sessions.add(event.session_id)`
AddSession(sessions, sid) == IF sid # "" THEN sessions \cup {sid} ELSE sessions

\* firstEventDate and lastEventDate being null.
NoDate == 0

\* `if (!firstEventDate || event.timestamp < firstEventDate)`
Earlier(first, ts) ==
    IF ts # NoTimestamp /\ (first = NoDate \/ ts < first) THEN ts ELSE first

\* `if (!lastEventDate || event.timestamp > lastEventDate)`
Later(last, ts) ==
    IF ts # NoTimestamp /\ (last = NoDate \/ ts > last) THEN ts ELSE last

EmptyStats ==
    [totalEvents |-> 0, eventsByType |-> <<>>, eventsByCategory |-> <<>>,
     firstEventDate |-> NoDate, lastEventDate |-> NoDate, totalSessions |-> 0]

RECURSIVE ForEachEvent(_, _, _)
\* The events.forEach of getUserEventStats from event i on; acc holds the
\* locals eventsByType, eventsByCategory, sessions and the two dates.
ForEachEvent(events, i, acc) ==
    IF i > Len(events) THEN acc
    ELSE LET event == events[i]
         IN  ForEachEvent(events, i + 1,
                 [eventsByType |-> CountKey(acc.eventsByType, event.event_type),
                  eventsByCategory |-> CountKey(acc.eventsByCategory,
                                                event.event_category),
                  sessions |-> AddSession(acc.sessions, event.session_id),
                  firstEventDate |-> Earlier(acc.firstEventDate, event.timestamp),
                  lastEventDate |-> Later(acc.lastEventDate, event.timestamp)])

\* SupabaseService.getUserEventStats when its query is answered
GetUserEventStats(table, userIdArg, current) ==
    LET user == IF userIdArg # Null THEN userIdArg ELSE current
    IN  IF user = Null THEN EmptyStats
        ELSE LET events == GetUserEvents(table, userIdArg, current)
                 acc == ForEachEvent(events, 1,
                            [eventsByType |-> <<>>, eventsByCategory |-> <<>>,
                             sessions |-> {}, firstEventDate |-> NoDate,
                             lastEventDate |-> NoDate])
             IN  [totalEvents |-> Len(events),
                  eventsByType |-> acc.eventsByType,
                  eventsByCategory |-> acc.eventsByCategory,
                  firstEventDate |-> acc.firstEventDate,
                  lastEventDate |-> acc.lastEventDate,
                  totalSessions |-> Cardinality(acc.sessions)]

NoStats == [totalEvents |-> -1]

\* A caller asks for the statistics and gets them.
ComputeStats ==
    /\ stats = NoStats
    /\ stats' = GetUserEventStats(statsIn.table, statsIn.userId, currentUser)
    /\ UNCHANGED <<ratings, visits, event_views, lastSent, detail, pages, now,
                   lastScrollTime, scrollSeen, scrollTimes, statsIn,
                   callVars, pageVars>>
    /\ UNCHANGED trackingVars

\* Nothing outside the tracking pipeline has happened yet.
(***************************************************************************)
(* The Ratings page.  A loadData call awaits four requests in turn:        *)
(* getUserRatings, the two selects of getUserPendingRatings, and           *)
(* getUserVisits; each of the three service calls reads the signed-in user *)
(* when it starts and answers with nothing, without a request, when there  *)
(* is none.                                                                *)
(***************************************************************************)
\* The ids of the events a user has rows for in a table.
EventIdsOf(table, uid) == {r.event_id : r \in {x \in BagToSet(table) : x.user_id = uid}}

\* getUserPendingRatings: `visits.filter(... !ratedEventIds.includes(eventId))`
PendingVisits(visitIds, ratedEventIds) == {e \in visitIds : e \notin ratedEventIds}

\* The Ratings component as constructed.  lastEnd and loadedFor are
\* history: how the latest loadData ended, and the user its
\* getUserPendingRatings asked for.
RatingsNew ==
    [pendingEvents |-> {}, selectedEvent |-> NoRouteId, ratingScore |-> 0,
     loads |-> <<>>, calls |-> <<>>, lastEnd |-> "none", loadedFor |-> Null]

\* closeRatingModal, which submitRating calls after its reload.
CloseModalAfter(rp, origin) ==
    IF origin = "submitRating" THEN [rp EXCEPT !.selectedEvent = NoRouteId] ELSE rp

\* loadData reaches `this.pendingEvents.set(pendingEvents)` and ends.
LoadEnd(rp, pendingEvents, uid, origin) ==
    CloseModalAfter([rp EXCEPT !.pendingEvents = pendingEvents, !.lastEnd = "set",
                               !.loadedFor = uid], origin)

\* loadData is called: with a user its first request goes out, without one
\* the three service calls answer with nothing at once.
LoadData(rp, user, origin) ==
    IF NoUser(user)
    THEN LoadEnd(rp, {}, Null, origin)
    ELSE [rp EXCEPT !.loads = Append(@, [pc |-> "getUserRatings", user |-> user,
                                         forUser |-> Null, rated |-> {},
                                         pending |-> {}, origin |-> origin])]

\* Request i of the loads in flight is answered, loadData runs on to its
\* next request or to its end.
LoadAnswered(rp, i, user, ratingsTable, visitsTable, ok) ==
    LET l == rp.loads[i]
        rest == [rp EXCEPT !.loads = RemoveAt(@, i)]
    IN  IF ~ok THEN [rest EXCEPT !.lastEnd = "error"]
        ELSE IF l.pc = "getUserRatings"
        THEN IF NoUser(user) THEN LoadEnd(rest, {}, Null, l.origin)
             ELSE [rp EXCEPT !.loads[i].pc = "ratedEvents", !.loads[i].user = user,
                             !.loads[i].forUser = user]
        ELSE IF l.pc = "ratedEvents"
        THEN [rp EXCEPT !.loads[i].pc = "visits",
                        !.loads[i].rated = EventIdsOf(ratingsTable, l.user)]
        ELSE IF l.pc = "visits"
        THEN LET pending == PendingVisits(EventIdsOf(visitsTable, l.user), l.rated)
             IN  IF NoUser(user)
                 THEN LoadEnd(rest, {[event |-> e, checkedIn |-> FALSE] : e \in pending},
                              l.forUser, l.origin)
                 ELSE [rp EXCEPT !.loads[i].pc = "getUserVisits",
                                 !.loads[i].user = user,
                                 !.loads[i].pending = pending]
        ELSE LET visitEventIds == EventIdsOf(visitsTable, l.user)
             IN  LoadEnd(rest, {[event |-> e, checkedIn |-> e \in visitEventIds] :
                                   e \in l.pending},
                         l.forUser, l.origin)

\* The requests of the Ratings page that are in flight.
RatingsInFlight == Len(ratingsPage.loads) + Len(ratingsPage.calls)

\* Ratings.ngOnInit
RatingsNgOnInit ==
    /\ ratingsPage = RatingsNew
    /\ ratingsPage' = LoadData(ratingsPage, currentUser, "ngOnInit")
    /\ UNCHANGED <<ratings, visits, event_views, lastSent, detail, pages, now,
                   lastScrollTime, scrollSeen, scrollTimes, statsIn, stats,
                   callVars, analytics>>
    /\ UNCHANGED trackingVars

\* A request of a loadData in flight is answered, or fails.
RatingsLoadAnswer(i, ok) ==
    /\ i \in DOMAIN ratingsPage.loads
    /\ ratingsPage' = LoadAnswered(ratingsPage, i, currentUser, ratings, visits, ok)
    /\ UNCHANGED <<ratings, visits, event_views, lastSent, detail, pages, now,
                   lastScrollTime, scrollSeen, scrollTimes, statsIn, stats,
                   callVars, analytics>>
    /\ UNCHANGED trackingVars

\* Ratings.openRatingModal, for a pending event the page shows.
OpenRatingModal(e) ==
    /\ \E p \in ratingsPage.pendingEvents : p.event = e
    /\ ratingsPage' = [ratingsPage EXCEPT !.selectedEvent = e, !.ratingScore = 0]
    /\ UNCHANGED <<ratings, visits, event_views, lastSent, detail, pages, now,
                   lastScrollTime, scrollSeen, scrollTimes, statsIn, stats,
                   callVars, analytics>>
    /\ UNCHANGED trackingVars

\* Ratings.closeRatingModal
CloseRatingModal ==
    /\ ratingsPage.selectedEvent # NoRouteId
    /\ ratingsPage' = [ratingsPage EXCEPT !.selectedEvent = NoRouteId]
    /\ UNCHANGED <<ratings, visits, event_views, lastSent, detail, pages, now,
                   lastScrollTime, scrollSeen, scrollTimes, statsIn, stats,
                   callVars, analytics>>
    /\ UNCHANGED trackingVars

\* Ratings.setRating, in the modal
RatingsSetRating(n) ==
    /\ ratingsPage.selectedEvent # NoRouteId
    /\ ratingsPage' = [ratingsPage EXCEPT !.ratingScore = n * 10]
    /\ UNCHANGED <<ratings, visits, event_views, lastSent, detail, pages, now,
                   lastScrollTime, scrollSeen, scrollTimes, statsIn, stats,
                   callVars, analytics>>
    /\ UNCHANGED trackingVars

\* Ratings.submitRating up to `await this.supabase.createRating(...)`; it
\* returns at once without an event or with score 0, and createRating
\* throws at once with nobody signed in.
RatingsSubmitRating ==
    /\ RatingsInFlight < MaxLoading
    /\ IF \/ ratingsPage.selectedEvent = NoRouteId
          \/ ratingsPage.ratingScore = 0
          \/ NoUser(currentUser)
       THEN UNCHANGED <<ratingsPage, lastSent>>
       ELSE /\ lastSent' = RatingBody("supabase", ratingsPage.selectedEvent,
                                      currentUser, ratingsPage.ratingScore,
                                      OrNull(""), TRUE,
                                      CountOf(ratings, ratingsPage.selectedEvent,
                                              currentUser) > 0)
            /\ ratingsPage' = [ratingsPage EXCEPT !.calls = Append(@, lastSent')]
    /\ UNCHANGED <<ratings, visits, event_views, detail, pages, now,
                   lastScrollTime, scrollSeen, scrollTimes, statsIn, stats,
                   callVars, analytics>>
    /\ UNCHANGED trackingVars

\* createRating request i of the page is answered; submitRating goes on to
\* `await this.loadData()`, or to its catch.
RatingsCreateSettle(i, ok) ==
    /\ i \in DOMAIN ratingsPage.calls
    /\ LET c == ratingsPage.calls[i]
           in == [score |-> c.score, review |-> "", wasPresent |-> c.was_present]
           row == RatingRow(c.event_id, c.user_id, c.score, c.review, c.was_present)
           rest == [ratingsPage EXCEPT !.calls = RemoveAt(@, i)]
       IN  IF ok /\ BackendAccepts(row)
           THEN /\ ratings' = CreateRatingWrite(ratings, c.event_id, c.user_id, in)
                /\ ratingsPage' = LoadData(rest, currentUser, "submitRating")
           ELSE /\ ratings' = ratings
                /\ ratingsPage' = rest
    /\ UNCHANGED <<visits, event_views, lastSent, detail, pages, now,
                   lastScrollTime, scrollSeen, scrollTimes, statsIn, stats,
                   callVars, analytics>>
    /\ UNCHANGED trackingVars

\* Ratings.checkIn for an event the page shows: the request, its answer and
\* the entry marked as checked in.
RatingsCheckIn(e, ok) ==
    /\ \E p \in ratingsPage.pendingEvents : p.event = e
    /\ visits' = CallWrite(visits, e, currentUser, ok)
    /\ ratingsPage' =
          IF ~NoUser(currentUser) /\ ok
          THEN [ratingsPage EXCEPT !.pendingEvents =
                   {IF p.event = e THEN [p EXCEPT !.checkedIn = TRUE] ELSE p : p \in @}]
          ELSE ratingsPage
    /\ UNCHANGED <<ratings, event_views, lastSent, detail, pages, now,
                   lastScrollTime, scrollSeen, scrollTimes, statsIn, stats,
                   callVars, analytics>>
    /\ UNCHANGED trackingVars

(***************************************************************************)
(* Analytics.calculateTopEvents.  An event is known by its title; a count  *)
(* the database left out (null) is NoCount.                                *)
(***************************************************************************)
\* `sorted.slice(0, 5)`
TopCount == 5

NoCount == -1

\* `count || 0`
OrZero(count) == IF count = NoCount THEN 0 ELSE count

\* The counts of the events the page is given: review_count, visitor_count.
EventCounts ==
    { [review_count |-> NoCount, visitor_count |-> NoCount],
      [review_count |-> 0, visitor_count |-> 1],
      [review_count |-> 1, visitor_count |-> NoCount],
      [review_count |-> 1, visitor_count |-> 1] }

\* The events of a list of counts, titled by their place in the list.
EventsOf(counts) ==
    [i \in DOMAIN counts |-> [title |-> i, review_count |-> counts[i].review_count,
                              visitor_count |-> counts[i].visitor_count]]

\* `events.map(e => ({ ...e, popularityScore: ... }))`
WithScore(e) ==
    [title |-> e.title, review_count |-> e.review_count,
     visitor_count |-> e.visitor_count,
     popularityScore |-> OrZero(e.review_count) * 2 + OrZero(e.visitor_count)]

\* A sort that leaves the array as it is.
InsertLast(sorted, x) == Append(sorted, x)

\* x put into an array sorted by `(a, b) => b.popularityScore -
\* a.popularityScore`, behind the elements that do not sort after it.
InsertDesc(sorted, x) ==
    LET ahead == {i \in DOMAIN sorted : sorted[i].popularityScore >= x.popularityScore}
        k == Cardinality(ahead)
    IN  SubSeq(sorted, 1, k) \o <<x>> \o SubSeq(sorted, k + 1, Len(sorted))

RECURSIVE SortByScore(_)
\* Array.prototype.sort with that comparator (a stable sort).
SortByScore(arr) ==
    IF arr = <<>> THEN <<>>
    ELSE InsertDesc(SortByScore(SubSeq(arr, 1, Len(arr) - 1)), arr[Len(arr)])

\* The TopEvent entries calculateTopEvents sets.
TopEventsOf(events) ==
    LET eventsWithScore == [i \in DOMAIN events |-> WithScore(events[i])]
        sorted == SortByScore(eventsWithScore)
        top5 == SubSeq(sorted, 1, Min(TopCount, Len(sorted)))
    IN  [index \in DOMAIN top5 |->
            [id |-> index, title |-> top5[index].title,
             visitors |-> OrZero(top5[index].visitor_count),
             reviews |-> OrZero(top5[index].review_count),
             popularityScore |-> top5[index].popularityScore]]

\* The Analytics component before it has been given events.
NoAnalytics == [events |-> <<>>, topEvents |-> <<>>, done |-> FALSE]

\* loadData calls calculateTopEvents with the events it fetched.
CalculateTopEvents ==
    /\ ~analytics.done
    /\ analytics' = [analytics EXCEPT !.topEvents = TopEventsOf(analytics.events),
                                      !.done = TRUE]
    /\ UNCHANGED <<ratings, visits, event_views, lastSent, detail, pages, now,
                   lastScrollTime, scrollSeen, scrollTimes, statsIn, stats,
                   callVars, ratingsPage>>
    /\ UNCHANGED trackingVars

\* The Ratings and Analytics pages as constructed.
PagesIdle ==
    /\ ratingsPage = RatingsNew
    /\ analytics = NoAnalytics

\* No write call made yet; every user has the profile of their sign-up.
CallsIdle ==
    /\ lastResult = NoResult
    /\ user_profiles = SetToBag({ProfileRow(u, "Ann") : u \in Users})

AppIdle ==
    /\ ratings = EmptyBag
    /\ visits = EmptyBag
    /\ event_views = EmptyBag
    /\ lastSent = NoRequest
    /\ detail = DetailNew
    /\ pages = [p \in Pages |-> PageNew]
    /\ now = throttleDelay
    /\ lastScrollTime = 0
    /\ scrollSeen = 0
    /\ scrollTimes = <<>>
    /\ statsIn = [table |-> <<>>, userId |-> Null]
    /\ stats = NoStats
    /\ CallsIdle
    /\ PagesIdle

(***************************************************************************)
(* Initial state: the page has loaded, no service is constructed yet.  The *)
(* browser may hold a Supabase session and an anonymous id stored by an    *)
(* earlier visit.                                                          *)
(***************************************************************************)
Init ==
    /\ session \in {Null} \cup Users
    /\ localStorage \in {Null, TrackingAnonId(0)}
    /\ sbState = "none"
    /\ currentUser = Null
    /\ listeners = <<>>
    /\ apiUserId = Null
    /\ isInitialized = FALSE
    /\ userId = Null
    /\ eventQueue = <<>>
    /\ inflight = <<>>
    /\ user_events = EmptyBag
    /\ nextId = 1
    /\ nextAnon = 1
    /\ canFail = TRUE
    /\ failed = FALSE
    /\ handled = {}
    /\ migrations = {}
    /\ AppIdle

(***************************************************************************)
(* Construction of the services.                                           *)
(***************************************************************************)
\* SupabaseService constructor: initializeAuth starts and awaits getUser().
SupabaseConstruct ==
    /\ sbState = "none"
    /\ sbState' = "getUser"
    /\ UNCHANGED <<session, currentUser, listeners, localStorage, apiUserId,
                   isInitialized, userId, eventQueue, inflight, user_events,
                   nextId, nextAnon, canFail, failed, handled, migrations>>
    /\ UNCHANGED appVars

\* SupabaseService.initializeAuth after getUser() has answered.
InitializeAuthResume ==
    /\ sbState = "getUser"
    /\ sbState' = "ready"
    /\ currentUser' = session
    /\ listeners' = Append(listeners, "sb")
    /\ UNCHANGED <<session, localStorage, apiUserId, isInitialized, userId,
                   eventQueue, inflight, user_events, nextId, nextAnon,
                   canFail, failed, handled, migrations>>
    /\ UNCHANGED appVars

\* UserTrackingService constructor and initializeTracking; inject() builds
\* SupabaseService first when nothing has built it yet.
TrackingConstruct ==
    /\ ~isInitialized
    /\ LET e == EnsureUserId(userId, currentUser, localStorage, nextAnon)
       IN  /\ e.fresh => nextAnon <= MaxAnon
           /\ userId' = e.uid
           /\ localStorage' = e.stored
           /\ nextAnon' = IF e.fresh THEN nextAnon + 1 ELSE nextAnon
    /\ sbState' = IF sbState = "none" THEN "getUser" ELSE sbState
    /\ listeners' = Append(listeners, "track")
    /\ isInitialized' = TRUE
    /\ UNCHANGED <<session, currentUser, apiUserId, eventQueue, inflight,
                   user_events, nextId, canFail, failed, handled, migrations>>
    /\ UNCHANGED appVars

\* ApiService constructor.
ApiConstruct ==
    /\ apiUserId = Null
    /\ LET g == GetOrCreateUserId(localStorage, nextAnon)
       IN  /\ g.fresh => nextAnon <= MaxAnon
           /\ apiUserId' = g.uid
           /\ localStorage' = g.stored
           /\ nextAnon' = IF g.fresh THEN nextAnon + 1 ELSE nextAnon
    /\ UNCHANGED <<session, sbState, currentUser, listeners, isInitialized,
                   userId, eventQueue, inflight, user_events, nextId, canFail,
                   failed, handled, migrations>>
    /\ UNCHANGED appVars

(***************************************************************************)
(* The tracking pipeline.                                                  *)
(***************************************************************************)
\* A trackEvent call from the application (click, scroll, navigation, ...).
UserTrack ==
    /\ isInitialized
    /\ CanTrack(1)
    /\ CanCall
    /\ Commit(TrackEvent(St, currentUser, "click", 0, "track", Null, Null))
    /\ UNCHANGED <<session, sbState, currentUser, listeners, apiUserId,
                   isInitialized, user_events, canFail, failed>>
    /\ UNCHANGED appVars

\* A flush started by caller origin.
Flush(force, origin) ==
    LET f == FlushEvents(eventQueue, force)
    IN  /\ eventQueue' = f.queue
        /\ inflight' = StartSave(inflight, f.batch, force, origin, Null, Null)
        /\ UNCHANGED <<session, sbState, currentUser, listeners, localStorage,
                       apiUserId, isInitialized, userId, user_events, nextId,
                       nextAnon, canFail, failed, handled, migrations>>
        /\ UNCHANGED appVars

\* The setInterval callback of startBatchFlush.
TimerFlush ==
    /\ isInitialized
    /\ CanCall
    /\ Flush(FALSE, "timer")

\* The beforeunload listener of trackUnload.
BeforeUnload ==
    /\ isInitialized
    /\ CanCall
    /\ CanForce
    /\ Flush(TRUE, "unload")

\* UserTrackingService.flush
ManualFlush ==
    /\ isInitialized
    /\ CanCall
    /\ CanForce
    /\ Flush(TRUE, "flush")

\* A pending saveUserEvents call resolves: the rows are inserted.
SaveSucceed(i) ==
    /\ i \in DOMAIN inflight
    /\ user_events' = user_events (+) BagOfSeq(inflight[i].batch)
    /\ Commit(Continue([St EXCEPT !.inflight = RemoveAt(@, i)], currentUser, inflight[i]))
    /\ UNCHANGED <<session, sbState, currentUser, listeners, apiUserId,
                   isInitialized, canFail, failed>>
    /\ UNCHANGED appVars

\* A pending saveUserEvents call rejects: the catch block of flushEvents.
SaveFail(i) ==
    /\ i \in DOMAIN inflight
    /\ canFail
    /\ failed' = TRUE
    /\ Commit(Continue([St EXCEPT !.inflight = RemoveAt(@, i),
                                  !.eventQueue = Requeue(@, inflight[i].batch,
                                                         inflight[i].force)],
                       currentUser, inflight[i]))
    /\ UNCHANGED <<session, sbState, currentUser, listeners, apiUserId,
                   isInitialized, user_events, canFail>>
    /\ UNCHANGED appVars

(***************************************************************************)
(* Authentication.                                                         *)
(***************************************************************************)
\* listener a was registered before listener b
Before(a, b) ==
    \E i, j \in DOMAIN listeners : i < j /\ listeners[i] = a /\ listeners[j] = b

Listening(a) == \E i \in DOMAIN listeners : listeners[i] = a

\* The Supabase client emits SIGNED_IN for user u (a sign-in, or the
\* session being announced again) and calls the listeners in order.
SignedIn(u) ==
    /\ sbState # "none"
    /\ session' = u
    /\ currentUser' = IF Listening("sb") THEN u ELSE currentUser
    /\ IF Listening("track")
       THEN /\ CanTrack(2)
            /\ CanCall
            /\ Commit(OnSignedIn(St, IF Before("sb", "track") THEN u ELSE currentUser,
                                 currentUser', u))
       ELSE UNCHANGED <<userId, localStorage, nextAnon, eventQueue, nextId,
                        inflight, handled, migrations>>
    /\ UNCHANGED <<sbState, listeners, apiUserId, isInitialized, user_events,
                   canFail, failed>>
    /\ UNCHANGED appVars

\* The Supabase client emits SIGNED_OUT.
SignedOut ==
    /\ sbState # "none"
    /\ session # Null
    /\ session' = Null
    /\ currentUser' = IF Listening("sb") THEN Null ELSE currentUser
    /\ IF Listening("track")
       THEN /\ CanTrack(1)
            /\ CanCall
            /\ nextAnon <= MaxAnon
            /\ Commit(OnSignedOut(St, IF Before("sb", "track") THEN Null
                                      ELSE currentUser))
       ELSE UNCHANGED <<userId, localStorage, nextAnon, eventQueue, nextId,
                        inflight, handled, migrations>>
    /\ UNCHANGED <<sbState, listeners, apiUserId, isInitialized, user_events,
                   canFail, failed>>
    /\ UNCHANGED appVars

\* UserTrackingService.updateUserId, called by the Login page.
UpdateUserId ==
    /\ isInitialized
    /\ CanTrack(1)
    /\ CanCall
    /\ Commit(UpdateUserIdOp(St, currentUser))
    /\ UNCHANGED <<session, sbState, currentUser, listeners, apiUserId,
                   isInitialized, user_events, canFail, failed>>
    /\ UNCHANGED appVars

\* From some point on the backend accepts every insert.
Stabilize ==
    /\ canFail
    /\ canFail' = FALSE
    /\ UNCHANGED <<session, sbState, currentUser, listeners, localStorage,
                   apiUserId, isInitialized, userId, eventQueue, inflight,
                   user_events, nextId, nextAnon, failed, handled, migrations>>
    /\ UNCHANGED appVars

(***************************************************************************)
(* Specifications.                                                         *)
(*   Spec       services being constructed, authentication, tracking,      *)
(*              timer flushes and their saves: who events are attributed   *)
(*              to.                                                        *)
(*   QueueSpec  the batching pipeline of a constructed tracking service    *)
(*              with every kind of flush: where events are.                *)
(*   LiveSpec   the pipeline under the scheduling the browser gives: the   *)
(*              interval timer keeps firing, every request settles.        *)
(***************************************************************************)
Next ==
    \/ SupabaseConstruct
    \/ InitializeAuthResume
    \/ TrackingConstruct
    \/ ApiConstruct
    \/ UserTrack
    \/ TimerFlush
    \/ \E i \in 1..MaxInFlight : SaveSucceed(i)
    \/ \E i \in 1..MaxInFlight : SaveFail(i)
    \/ \E u \in Users : SignedIn(u)
    \/ SignedOut
    \/ UpdateUserId

Spec == Init /\ [][Next]_vars

\* Both services constructed, nobody signed in, an anonymous id in use.
QueueInit ==
    /\ session = Null
    /\ localStorage = TrackingAnonId(0)
    /\ sbState = "ready"
    /\ currentUser = Null
    /\ listeners = <<"track", "sb">>
    /\ apiUserId = Null
    /\ isInitialized = TRUE
    /\ userId = TrackingAnonId(0)
    /\ eventQueue = <<>>
    /\ inflight = <<>>
    /\ user_events = EmptyBag
    /\ nextId = 1
    /\ nextAnon = 1
    /\ canFail = TRUE
    /\ failed = FALSE
    /\ handled = {}
    /\ migrations = {}
    /\ AppIdle

QueueNext ==
    \/ UserTrack
    \/ TimerFlush
    \/ BeforeUnload
    \/ ManualFlush
    \/ \E i \in 1..MaxInFlight : SaveSucceed(i)
    \/ \E i \in 1..MaxInFlight : SaveFail(i)

QueueSpec == QueueInit /\ [][QueueNext]_vars

LiveNext ==
    \/ UserTrack
    \/ TimerFlush
    \/ \E i \in 1..MaxInFlight : SaveSucceed(i)
    \/ \E i \in 1..MaxInFlight : SaveFail(i)
    \/ Stabilize

LiveSpec ==
    /\ QueueInit
    /\ [][LiveNext]_vars
    /\ WF_vars(TimerFlush)
    /\ \A i \in 1..MaxInFlight : WF_vars(SaveSucceed(i))

(***************************************************************************)
(* Specifications of the pages, directives and backend calls.              *)
(*   BackendSpec  the write calls of SupabaseService and ApiService, made  *)
(*                by one user, who may sign out, or with nobody signed in. *)
(*   DetailSpec   a loaded EventDetail page whose user rates the event.    *)
(*   PageSpec     the page components being created and loading.           *)
(*   ScrollSpec   TrackScrollDirective on top of the tracking pipeline.    *)
(*   StatsSpec    getUserEventStats over rows of user_events.              *)
(*   RatingsSpec  the Ratings page loading, rating and checking in.        *)
(*   AnalyticsSpec  calculateTopEvents over lists of events.               *)
(***************************************************************************)
\* SupabaseService and ApiService constructed by a page, user signed in or
\* not; the tracking service is not part of these specifications.
ServicesInit(user) ==
    /\ session = user
    /\ currentUser = user
    /\ sbState = "ready"
    /\ listeners = <<"sb">>
    /\ localStorage = ApiAnonId(0)
    /\ apiUserId = ApiAnonId(0)
    /\ isInitialized = FALSE
    /\ userId = Null
    /\ eventQueue = <<>>
    /\ inflight = <<>>
    /\ user_events = EmptyBag
    /\ nextId = 1
    /\ nextAnon = 1
    /\ canFail = TRUE
    /\ failed = FALSE
    /\ handled = {}
    /\ migrations = {}

BackendInit ==
    /\ \E user \in {Null} \cup Users : ServicesInit(user)
    /\ AppIdle

BackendNext ==
    \/ SignedOut
    \/ \E e \in Events, in \in RatingInputs, ok \in BOOLEAN : SbCreateRating(e, in, ok)
    \/ \E e \in Events, in \in RatingInputs : ApiCreateRating(e, in)
    \/ \E e \in Events, ok \in BOOLEAN : SbCheckIn(e, ok)
    \/ \E e \in Events, ok \in BOOLEAN : SbTrackEventView(e, ok)
    \/ \E name \in ProfileNames, ok \in BOOLEAN : SbUpdateUserProfile(name, ok)

BackendSpec == BackendInit /\ [][BackendNext]_vars

\* ngOnInit of EventDetail has loaded an event nobody has rated yet.
DetailInit ==
    /\ \E user \in {Null} \cup Users : ServicesInit(user)
    /\ ratings = EmptyBag
    /\ visits = EmptyBag
    /\ event_views = EmptyBag
    /\ lastSent = NoRequest
    /\ \E e \in Events :
          /\ detail = DetailLoaded(e, ratings)
          /\ pages = [p \in Pages |->
                        IF p = "EventDetail"
                        THEN [PageNew EXCEPT !.at = "done", !.loading = FALSE, !.id = e]
                        ELSE PageNew]
    /\ now = throttleDelay
    /\ lastScrollTime = 0
    /\ scrollSeen = 0
    /\ scrollTimes = <<>>
    /\ statsIn = [table |-> <<>>, userId |-> Null]
    /\ stats = NoStats
    /\ CallsIdle
    /\ PagesIdle

DetailNext ==
    \/ \E n \in Stars : SetRating(n)
    \/ SubmitRating
    \/ \E ok \in BOOLEAN : CreateRatingSettle(ok)
    \/ \E res \in {"ok", "null", "error"} : ReloadSettle(res)
    \/ SubmittedTimeout
    \/ \E u \in Users : SignedIn(u)
    \/ SignedOut

DetailSpec == DetailInit /\ [][DetailNext]_vars

\* Every service constructed, the user signed in or not, no page created.
PageInit ==
    /\ \E user \in {Null} \cup Users :
          /\ session = user
          /\ currentUser = user
          /\ userId = IF user = Null THEN TrackingAnonId(0) ELSE user
    /\ sbState = "ready"
    /\ listeners = <<"sb", "track">>
    /\ localStorage = TrackingAnonId(0)
    /\ apiUserId = TrackingAnonId(0)
    /\ isInitialized = TRUE
    /\ eventQueue = <<>>
    /\ inflight = <<>>
    /\ user_events = EmptyBag
    /\ nextId = 1
    /\ nextAnon = 1
    /\ canFail = TRUE
    /\ failed = FALSE
    /\ handled = {}
    /\ migrations = {}
    /\ AppIdle

PageNext ==
    \/ \E p \in Pages, routeId \in {NoRouteId} \cup Events : NgOnInit(p, routeId)
    \/ \E p \in Pages, outcome \in {"ok", "null", "error"} : PageAnswer(p, outcome)

PageSpec == PageInit /\ [][PageNext]_vars

ScrollNext ==
    \/ \E d \in TickSteps : Tick(d)
    \/ OnScroll
    \/ \E i \in 1..MaxInFlight : SaveSucceed(i)
    \/ \E i \in 1..MaxInFlight : SaveFail(i)

ScrollSpec == QueueInit /\ [][ScrollNext]_vars

\* The table holds some rows; the caller passes a user id or none.
StatsInit ==
    /\ \E user \in {Null, AuthId(1)} : ServicesInit(user)
    /\ ratings = EmptyBag
    /\ visits = EmptyBag
    /\ event_views = EmptyBag
    /\ lastSent = NoRequest
    /\ detail = DetailNew
    /\ pages = [p \in Pages |-> PageNew]
    /\ now = throttleDelay
    /\ lastScrollTime = 0
    /\ scrollSeen = 0
    /\ scrollTimes = <<>>
    /\ statsIn \in [table : SeqsUpTo(StatRows, MaxRows), userId : {Null, AuthId(1)}]
    /\ stats = NoStats
    /\ CallsIdle
    /\ PagesIdle

StatsNext == ComputeStats

StatsSpec == StatsInit /\ [][StatsNext]_vars

\* The Ratings page opened by a user who has visited some of the events,
\* and who may sign out and in while it loads.
RatingsInit ==
    /\ \E user \in Users : ServicesInit(user)
    /\ ratings = EmptyBag
    /\ \E visited \in SUBSET (Events \X Users) :
          visits = SetToBag({[event_id |-> v[1], user_id |-> v[2]] : v \in visited})
    /\ event_views = EmptyBag
    /\ lastSent = NoRequest
    /\ detail = DetailNew
    /\ pages = [p \in Pages |-> PageNew]
    /\ now = throttleDelay
    /\ lastScrollTime = 0
    /\ scrollSeen = 0
    /\ scrollTimes = <<>>
    /\ statsIn = [table |-> <<>>, userId |-> Null]
    /\ stats = NoStats
    /\ CallsIdle
    /\ PagesIdle

RatingsNext ==
    \/ RatingsNgOnInit
    \/ \E i \in 1..MaxLoading, ok \in BOOLEAN : RatingsLoadAnswer(i, ok)
    \/ \E e \in Events : OpenRatingModal(e)
    \/ CloseRatingModal
    \/ \E n \in Stars : RatingsSetRating(n)
    \/ RatingsSubmitRating
    \/ \E i \in 1..MaxLoading, ok \in BOOLEAN : RatingsCreateSettle(i, ok)
    \/ \E e \in Events, ok \in BOOLEAN : RatingsCheckIn(e, ok)
    \/ \E u \in Users : SignedIn(u)
    \/ SignedOut

RatingsSpec == RatingsInit /\ [][RatingsNext]_vars

\* The Analytics page with the events getEvents has answered.
AnalyticsInit ==
    /\ \E user \in {Null} \cup Users : ServicesInit(user)
    /\ ratings = EmptyBag
    /\ visits = EmptyBag
    /\ event_views = EmptyBag
    /\ lastSent = NoRequest
    /\ detail = DetailNew
    /\ pages = [p \in Pages |-> PageNew]
    /\ now = throttleDelay
    /\ lastScrollTime = 0
    /\ scrollSeen = 0
    /\ scrollTimes = <<>>
    /\ statsIn = [table |-> <<>>, userId |-> Null]
    /\ stats = NoStats
    /\ CallsIdle
    /\ ratingsPage = RatingsNew
    /\ \E counts \in SeqsUpTo(EventCounts, MaxListed) :
          analytics = [NoAnalytics EXCEPT !.events = EventsOf(counts)]

AnalyticsNext == CalculateTopEvents

AnalyticsSpec == AnalyticsInit /\ [][AnalyticsNext]_vars

(***************************************************************************)
(* Properties.                                                             *)
(***************************************************************************)
Tracked == 1..(nextId - 1)

InQueue(id) == \E j \in DOMAIN eventQueue : eventQueue[j].id = id

\* A step that starts a saveUserEvents call; the call is NewCall.
StartsCall == Len(inflight') = Len(inflight) + 1

NewCall == inflight'[Len(inflight')]

\* C1: no tracked event is lost: every tracked event that no successful
\* saveUserEvents call has carried yet is in eventQueue or in the batch of a
\* call still in flight; so the batch of a failed non-forced flush is back
\* in the queue.
NoEventLost ==
    \A id \in Tracked :
        TimesSaved(id) = 0 => InQueue(id) \/ TimesInFlight(id) > 0

\* C1 witness: after a failed save every tracked event is back in the queue,
\* none saved, none in flight.
RequeuedAfterFailure ==
    /\ failed
    /\ inflight = <<>>
    /\ user_events = EmptyBag
    /\ Len(eventQueue) > batchSize

\* C2: no event is passed to a successful saveUserEvents call more than
\* once (a forced flush that succeeded leaves nothing to send again).
NoDuplicateSave == \A id \in Tracked : TimesSaved(id) <= 1

\* C3: once the backend accepts every insert, every tracked event is
\* eventually carried by a successful saveUserEvents call, given that the
\* flush timer keeps firing and every request settles.
EventuallySaved ==
    \A id \in 1..MaxEvents :
        (id \in Tracked /\ ~canFail) ~> (TimesSaved(id) >= 1)

\* C3 witness: earlier saves failed, the queue has grown beyond batchSize,
\* and from now on saves succeed.
BacklogWhenStable ==
    /\ failed
    /\ ~canFail
    /\ Len(eventQueue) > batchSize

\* C4: a saveUserEvents call started by a non-forced flush (timer tick or
\* size threshold) carries at most batchSize events, they are the oldest
\* events of the queue in queue order, and they leave the queue when the
\* call starts.
NonForcedBatchStep ==
    (StartsCall /\ ~NewCall.force) =>
        LET b == NewCall.batch
            atFlush == b \o eventQueue'
        IN  /\ Len(b) = Min(batchSize, Len(atFlush))
            /\ \/ atFlush = eventQueue
               \/ /\ Len(atFlush) = Len(eventQueue) + 1
                  /\ SubSeq(atFlush, 1, Len(eventQueue)) = eventQueue
                  /\ atFlush[Len(atFlush)].id = nextId
            /\ \A j \in DOMAIN b : \A k \in DOMAIN eventQueue' : eventQueue'[k].id # b[j].id

NonForcedBatch == [][NonForcedBatchStep]_vars

\* C4 witness: a timer flush took a full batch and left the rest queued.
TimerTookOldest ==
    \E i \in DOMAIN inflight :
        /\ inflight[i].origin = "timer"
        /\ Len(inflight[i].batch) = batchSize
        /\ eventQueue # <<>>
        /\ \A j \in DOMAIN eventQueue : eventQueue[j].id > inflight[i].batch[batchSize].id
        /\ failed

\* C5: as long as no save has failed the queue holds fewer than batchSize
\* events whenever a task has finished, so whenever a trackEvent returns.
BelowThreshold == ~failed => Len(eventQueue) < batchSize

\* C5 witness: the threshold flush has run and tracking went on after it.
ThresholdFlushed ==
    /\ ~failed
    /\ \E i \in DOMAIN inflight :
          inflight[i].origin = "track" /\ Len(inflight[i].batch) = batchSize
    /\ Len(eventQueue) = batchSize - 1

\* C6: the beforeunload handler hands every event that is in the queue to
\* one saveUserEvents call, however many there are, and makes no call when
\* the queue is empty.
UnloadFlushesAllStep ==
    (StartsCall /\ NewCall.origin = "unload") =>
        /\ NewCall.batch = eventQueue
        /\ NewCall.batch # <<>>
        /\ NewCall.force

UnloadFlushesAll == [][UnloadFlushesAllStep]_vars

\* C6 witness: an unload flush in flight carries more than batchSize events.
UnloadSentBacklog ==
    \E i \in DOMAIN inflight :
        inflight[i].origin = "unload" /\ Len(inflight[i].batch) > batchSize

\* Events held by the tracking service: queued or in a pending batch.
Held == Range(eventQueue) \cup UNION {Range(inflight[i].batch) : i \in DOMAIN inflight}

\* C7: every event that trackEvent queued while SupabaseService had a
\* signed-in current user carries that user's id as user_id.
AttributedToAuthUser ==
    \A e \in Held : e.auth # Null => e.user_id = e.auth

\* C8: once the sign-in of a previously anonymous user has been handled
\* (the SIGNED_IN listener or updateUserId has completed), no event in the
\* queue carries the old anonymous id.
MigrationComplete ==
    \A j \in DOMAIN eventQueue : eventQueue[j].user_id \notin handled

\* C9: a tracking service constructed while nobody is signed in adopts the
\* id stored under 'anonymous_user_id' and leaves the key alone; it
\* generates an id, and stores it, only when the key is absent.
ReusesStoredIdStep ==
    (~isInitialized /\ isInitialized') =>
        /\ (session = Null /\ localStorage # Null) =>
               /\ userId' = localStorage
               /\ localStorage' = localStorage
               /\ nextAnon' = nextAnon
        /\ (session = Null /\ localStorage = Null) =>
               /\ userId' = TrackingAnonId(nextAnon)
               /\ localStorage' = userId'
        /\ localStorage' # localStorage => localStorage = Null

ReusesStoredId == [][ReusesStoredIdStep]_vars

\* C9 witness: the id stored by an earlier visit is the one in use.
StoredIdAdopted ==
    /\ isInitialized
    /\ session = Null
    /\ userId = TrackingAnonId(0)
    /\ localStorage = TrackingAnonId(0)
    /\ \E e \in Held : e.user_id = TrackingAnonId(0)

ScoresSentAreValid ==
    lastSent # NoRequest => lastSent.score \in ValidScores

OneRowPerPair(table) ==
    \A r \in BagToSet(table) : CountOf(table, r.event_id, r.user_id) = 1

\* C13: the ratings, visits and event_views tables never hold two rows of
\* one event and user; a createRating that is accepted leaves exactly the
\* row it sent for its event and user (score, review, was_present replaced)
\* and touches no other row; a checkIn or trackEventView changes its table
\* only by adding the row of a pair that had none.
UpsertOnConflict ==
    [][/\ OneRowPerPair(ratings') /\ OneRowPerPair(visits')
       /\ OneRowPerPair(event_views')
       /\ ratings' # ratings =>
             LET b == lastSent'
                 row == RatingRow(b.event_id, b.user_id, b.score, b.review,
                                  b.was_present)
             IN  /\ b.service = "supabase"
                 /\ RowsOf(ratings', b.event_id, b.user_id) = {row}
                 /\ \A r \in BagToSet(ratings) \cup BagToSet(ratings') :
                       (r.event_id # b.event_id \/ r.user_id # b.user_id) =>
                          r \in BagToSet(ratings) \cap BagToSet(ratings')
       /\ visits' # visits =>
             \E e \in Events, u \in Users :
                /\ CountOf(visits, e, u) = 0
                /\ visits' = visits (+) SetToBag({[event_id |-> e, user_id |-> u]})
       /\ event_views' # event_views =>
             \E e \in Events, u \in Users :
                /\ CountOf(event_views, e, u) = 0
                /\ event_views' =
                      event_views (+) SetToBag({[event_id |-> e, user_id |-> u]})]_vars

\* A createRating has replaced the user's earlier rating of the event, and
\* the user has checked in and viewed it.
RatingReplaced ==
    /\ lastSent.service = "supabase"
    /\ lastSent.hit
    /\ RowsOf(ratings, lastSent.event_id, lastSent.user_id) =
          {RatingRow(lastSent.event_id, lastSent.user_id, lastSent.score,
                     lastSent.review, lastSent.was_present)}
    /\ CountOf(visits, lastSent.event_id, lastSent.user_id) = 1
    /\ CountOf(event_views, lastSent.event_id, lastSent.user_id) = 1

\* ngOnInit of page p is over.
LoadOver(p) == pages[p].at = "done"

ScrollThrottled ==
    [][/\ \A i, j \in DOMAIN scrollTimes' :
             i < j => scrollTimes'[j] - scrollTimes'[i] >= throttleDelay
       /\ (/\ scrollSeen' # scrollSeen
           /\ scrollTimes # <<>>
           /\ now - scrollTimes[Len(scrollTimes)] < throttleDelay)
          => UNCHANGED <<scrollTimes, nextId, eventQueue, inflight, user_events>>]_vars

\* Two scroll events were tracked exactly throttleDelay apart and another
\* one, in between, was dropped.
ScrollDroppedBetween ==
    /\ Len(scrollTimes) = 2
    /\ scrollTimes[2] - scrollTimes[1] = throttleDelay
    /\ scrollSeen = 3
    /\ nextId = 3

\* The user a stats call is about: the argument, else the signed-in user.
StatsUser == IF statsIn.userId # Null THEN statsIn.userId ELSE currentUser

\* The rows of the table that belong to that user.
StatsRowsOfUser == {i \in DOMAIN statsIn.table : statsIn.table[i].user_id = StatsUser}

RECURSIVE SumOfCounts(_, _)
\* The sum of the counts of a Record<string, number> over the keys in keys.
SumOfCounts(counts, keys) ==
    IF keys = {} THEN 0
    ELSE LET k == CHOOSE x \in keys : TRUE
         IN  counts[k] + SumOfCounts(counts, keys \ {k})

\* C16: the statistics agree with the user's events: totalEvents is their
\* number, eventsByType and eventsByCategory count them by key and each sum
\* to totalEvents, totalSessions is the number of distinct non-empty
\* session ids, firstEventDate and lastEventDate are the smallest and the
\* largest timestamp; with no user everything is zero, empty or null.
StatsConsistent ==
    stats # NoStats =>
       IF StatsUser = Null THEN stats = EmptyStats
       ELSE LET rows == StatsRowsOfUser
                t == statsIn.table
                stamps == {t[i].timestamp : i \in rows} \ {NoTimestamp}
            IN  /\ stats.totalEvents = Cardinality(rows)
                /\ DOMAIN stats.eventsByType = {t[i].event_type : i \in rows}
                /\ \A k \in DOMAIN stats.eventsByType :
                      stats.eventsByType[k] =
                         Cardinality({i \in rows : t[i].event_type = k})
                /\ SumOfCounts(stats.eventsByType, DOMAIN stats.eventsByType)
                      = stats.totalEvents
                /\ DOMAIN stats.eventsByCategory = {t[i].event_category : i \in rows}
                /\ \A k \in DOMAIN stats.eventsByCategory :
                      stats.eventsByCategory[k] =
                         Cardinality({i \in rows : t[i].event_category = k})
                /\ SumOfCounts(stats.eventsByCategory, DOMAIN stats.eventsByCategory)
                      = stats.totalEvents
                /\ stats.totalSessions =
                      Cardinality({t[i].session_id : i \in rows} \ {""})
                /\ IF stamps = {}
                   THEN stats.firstEventDate = NoDate /\ stats.lastEventDate = NoDate
                   ELSE /\ stats.firstEventDate \in stamps
                        /\ stats.lastEventDate \in stamps
                        /\ \A s \in stamps : /\ stats.firstEventDate <= s
                                             /\ s <= stats.lastEventDate

\* Statistics of a user with two events at different times, one of them
\* without a session id.
StatsOfTwoEvents ==
    /\ stats # NoStats
    /\ stats.totalEvents = 2
    /\ stats.totalSessions = 1
    /\ stats.firstEventDate # NoDate
    /\ stats.firstEventDate < stats.lastEventDate
    /\ \E i \in StatsRowsOfUser : statsIn.table[i].session_id = ""

\* The rows a step inserts into user_events.
NewlySaved ==
    {r \in DOMAIN user_events' :
        r \notin DOMAIN user_events \/ user_events'[r] > user_events[r]}

QueueInTrackedOrder ==
    \A i, j \in DOMAIN eventQueue :
        i < j => eventQueue[i].id < eventQueue[j].id

\* C19: the events_migrated event records the number of queued events
\* whose user_id the migration changed from the old id to the new one.
MigratedCountRecorded ==
    \A mig \in migrations : mig.recorded = mig.changed

\* A current user id that is no signed-in user's is the id localStorage holds.
AnonymousIdStored == userId \notin Users \cup {Null} => localStorage = userId

\* The events a step creates.
NewEvents ==
    {e \in Range(eventQueue') \cup
           UNION {Range(inflight'[i].batch) : i \in DOMAIN inflight'} :
        e.id >= nextId}

\* C20: whenever the current user id is anonymous, 'anonymous_user_id' in
\* localStorage holds it.  When SIGNED_OUT is handled the current id
\* becomes an anonymous id generated then, other than the id in use before,
\* the user_signed_out event carries it, and the events held before keep
\* their ids; an event created while the current id stays the same carries
\* the current id.
AnonymousIdKeptAndRenewed ==
    [][/\ AnonymousIdStored'
       /\ (session # Null /\ session' = Null /\ Listening("track")) =>
             /\ IsAnon(userId')
             /\ userId' # userId
             /\ userId' # session
             /\ userId'.n >= nextAnon
             /\ \E e \in NewEvents :
                   e.event_type = "user_signed_out" /\ e.user_id = userId'
             /\ \A e \in Held :
                   e \in Range(eventQueue') \cup
                         UNION {Range(inflight'[i].batch) : i \in DOMAIN inflight'}
       /\ userId' = userId => \A e \in NewEvents : e.user_id = userId]_vars

\* A signed-in user has signed out with an event in the queue; the queue
\* holds that event under the user's id and user_signed_out under the new
\* anonymous id.
SignedOutUnderNewId ==
    /\ session = Null
    /\ IsAnon(userId)
    /\ localStorage = userId
    /\ \E i, j \in DOMAIN eventQueue :
          /\ i < j
          /\ eventQueue[i].user_id \in Users
          /\ eventQueue[j].event_type = "user_signed_out"
          /\ eventQueue[j].user_id = userId


\* C21: a step taken while nobody is signed in changes none of the tables
\* ratings, visits, event_views and user_profiles and sends no request of
\* SupabaseService; a checkIn, createRating or updateUserProfile made then
\* ends with the error 'User must be authenticated', a trackEventView made
\* then returns.
WritesRequireAuthentication ==
    [][currentUser = Null =>
          /\ <<ratings, visits, event_views, user_profiles>>' =
                <<ratings, visits, event_views, user_profiles>>
          /\ lastSent' # lastSent => lastSent'.service = "api"
          /\ lastResult' # lastResult =>
                /\ ~lastResult'.sent
                /\ lastResult'.op \in {"checkIn", "createRating", "updateUserProfile"}
                      => lastResult'.result = AuthError
                /\ lastResult'.op = "trackEventView"
                      => lastResult'.result = "resolved"]_vars

\* After signing out, a write call has been refused while the tables hold
\* the rows written before.
WriteRefusedAfterSignOut ==
    /\ currentUser = Null
    /\ lastResult.result = AuthError
    /\ ratings # EmptyBag
    /\ visits # EmptyBag


\* C22: EventDetail has at most one submitRating call between its first
\* line and its finally block; submitting is true exactly while that call
\* awaits createRating or the reload, and false once it is over; a call
\* goes on to createRating only when userRating > 0 and submitting is
\* false, and the score it sends is that userRating, never 0.
SubmitsOneAtATime ==
    [][/\ detail'.pending <= 1
       /\ detail'.submitting <=> detail'.pending = 1
       /\ detail'.submitting <=> detail'.pc \in {"createRating", "getEventById"}
       /\ detail'.pending > detail.pending =>
             /\ detail.userRating > 0
             /\ ~detail.submitting
             /\ lastSent'.score = detail.userRating
             /\ lastSent'.score # 0]_vars

\* A submission awaits its reload, and the user has picked another
\* number of stars since it was sent.
SubmissionAwaitsReload ==
    /\ detail.pc = "getEventById"
    /\ detail.submitting
    /\ detail.userRating # detail.call.score


\* C23: when a loadData of the Ratings page has set pendingEvents, these
\* are exactly the events its user has a visit for and no rating for (so
\* none the user has rated), and every entry has checkedIn = true.
PendingAreVisitedUnrated ==
    [][(/\ Len(ratingsPage'.loads) < Len(ratingsPage.loads)
        /\ ratingsPage'.lastEnd = "set") =>
          LET uid == ratingsPage'.loadedFor
          IN  /\ {p.event : p \in ratingsPage'.pendingEvents} =
                    {e \in Events : /\ CountOf(visits', e, uid) > 0
                                    /\ CountOf(ratings', e, uid) = 0}
              /\ \A p \in ratingsPage'.pendingEvents : p.checkedIn]_vars


\* 2 * review_count + visitor_count of an event, a missing count being 0.
Popularity(e) ==
    2 * (IF e.review_count = NoCount THEN 0 ELSE e.review_count)
      + (IF e.visitor_count = NoCount THEN 0 ELSE e.visitor_count)

\* C24: calculateTopEvents sets min(5, number of events) entries; entry i
\* has id i and is one of the events, each at most once, with
\* popularityScore = 2 * review_count + visitor_count of that event; the
\* scores do not increase along the list, and no event left out has a
\* higher score than an entry.
TopEventsRanked ==
    analytics.done =>
       LET events == analytics.events
           top == analytics.topEvents
           listed == {top[i].title : i \in DOMAIN top}
       IN  /\ Len(top) = IF Len(events) < 5 THEN Len(events) ELSE 5
           /\ Cardinality(listed) = Len(top)
           /\ \A i \in DOMAIN top :
                 /\ top[i].id = i
                 /\ \E j \in DOMAIN events :
                       /\ events[j].title = top[i].title
                       /\ top[i].popularityScore = Popularity(events[j])
           /\ \A i, k \in DOMAIN top :
                 i < k => top[i].popularityScore >= top[k].popularityScore
           /\ \A j \in DOMAIN events :
                 events[j].title \notin listed =>
                    \A i \in DOMAIN top : top[i].popularityScore >= Popularity(events[j])

\* More events than entries, given in rising order of score, some with a
\* count missing: the list is cut and is not the order given.
TopEventsCut ==
    /\ analytics.done
    /\ Len(analytics.events) > TopCount
    /\ \E j \in DOMAIN analytics.events : analytics.events[j].review_count = NoCount
    /\ \E j \in DOMAIN analytics.events : analytics.events[j].visitor_count = NoCount
    /\ Popularity(analytics.events[1]) < Popularity(analytics.events[Len(analytics.events)])
    /\ analytics.topEvents[1].popularityScore > analytics.topEvents[TopCount].popularityScore

====
